---- MODULE Spec2Model ----
(***************************************************************************)
(* Threshold Limit (TL) graphs: the two scripts of the repository,         *)
(*   v1 = src/genoutcomepredict.py   (free functions, main loop)           *)
(*   v2 = src/genoutcomepredict2.py  (class TLGraphGenerator)              *)
(*                                                                         *)
(* Numbers.  Cells of a data frame are <<v>> (an integer v) or <<>> (a     *)
(* missing value, pandas' NaN).  A computed float is the exact fraction    *)
(* <<num, den>> with den > 0, left unreduced; the float NaN is <<0, 0>>,   *)
(* which is also what the mean of no values (0/0) comes to.  On the        *)
(* integer data used here every comparison of a cell with a threshold      *)
(* comes out in exact arithmetic as it does in IEEE doubles: a threshold   *)
(* start + i*(stop-start)/19 is an integer only if 19 divides stop-start,  *)
(* and then the double is exact.                                           *)
(***************************************************************************)
EXTENDS Integers, Sequences, FiniteSets

VARIABLES
    variant,   \* "v1" | "v2": which script runs
    lib,       \* the installed numpy: "raises" | "nan" for choice() on no data
    params,    \* params_df: the GraphSpec rows of input_parameters.xlsx
    datafile,  \* the rows of the data workbook the GraphSpecs name
    run,       \* which run of the program this is
    idx,       \* the row of params_df the batch loop is at
    pc,        \* position in the loop body / in the unit call
    df,        \* the loop body's local df
    rng,       \* the state of numpy's global generator
    status,    \* per GraphSpec of this run: pending/success/skipped/failed
    ciLog,     \* history: every confidence-interval call, with its answer
    sweepLog,  \* history: every threshold sweep (size of its df, its calls)
    args,      \* a unit call's arguments
    ret        \* a unit call's return value

vars == <<variant, lib, params, datafile, run, idx, pc, df, rng, status,
          ciLog, sweepLog, args, ret>>

(***************************************************************************)
(* Bounds of the model                                                     *)
(***************************************************************************)
MaxGraphs == 2      \* GraphSpecs in a batch
MaxRuns == 2        \* runs of the program on the same inputs
MaxRows == 2        \* rows of a data frame handed to apply_filters
MaxSweepRows == 3   \* rows of a data frame handed to the sweep
MaxValues == 3      \* outcome values handed to an interval estimator
MaxMinN == 4        \* min_n ranges over 0..MaxMinN
NumBoots == 3       \* num_boots (1000 in the source) scaled down

(***************************************************************************)
(* Program constants                                                       *)
(***************************************************************************)
Seed == 0            \* np.random.seed(0)
NumThresholds == 20  \* np.linspace(..., 20)

NA == <<>>           \* a missing cell
NaN == <<0, 0>>      \* float NaN
Columns == {"x", "y", "g"}   \* df.columns of the data workbook
ValidOps == {"==", ">", ">=", "<", "<=", "!="}

\* pd.notna of a filter variable: an empty or "NA" cell of the parameter sheet
\* is read as NaN, written "nan" here
notna(v) == v # "nan"

RECURSIVE Sum(_)
Sum(s) == IF s = <<>> THEN 0 ELSE Head(s) + Sum(Tail(s))

RECURSIVE Insert(_, _)
Insert(v, s) ==
    IF s = <<>> THEN <<v>>
    ELSE IF v <= Head(s) THEN <<v>> \o s
    ELSE <<Head(s)>> \o Insert(v, Tail(s))

RECURSIVE Sort(_)
Sort(s) == IF s = <<>> THEN <<>> ELSE Insert(Head(s), Sort(Tail(s)))

\* np.mean of integers: sum / count; of nothing, 0/0 = NaN (a warning, no raise)
np_mean(s) == <<Sum(s), Len(s)>>

\* np.median: the middle of the sorted values, or the mean of the two middles
np_median(s) ==
    LET n == Len(s)
        t == Sort(s)
    IN  IF n = 0 THEN NaN
        ELSE IF n % 2 = 1 THEN <<t[(n + 1) \div 2], 1>>
        ELSE <<t[n \div 2] + t[n \div 2 + 1], 2>>

(***************************************************************************)
(* apply_filters                                                           *)
(***************************************************************************)
\* one comparison of df.query: a missing cell compares unequal to everything
compare_strict(cell, op, crit) ==
    IF cell = NA THEN op = "!="
    ELSE LET v == cell[1]
         IN  CASE op = "==" -> v = crit
               [] op = ">"  -> v > crit
               [] op = ">=" -> v > crit
               [] op = "<"  -> v < crit
               [] op = "<=" -> v < crit
               [] op = "!=" -> v # crit

compare(cell, op, crit) ==
    IF cell = NA THEN op = "!="
    ELSE LET v == cell[1]
         IN  CASE op = "==" -> v = crit
               [] op = ">"  -> v > crit
               [] op = ">=" -> v >= crit
               [] op = "<"  -> v < crit
               [] op = "<=" -> v <= crit
               [] op = "!=" -> v # crit

\* df.query(f"`{filter_var}` {filter_op} {filter_criteria}"): the rows, in
\* order, where the comparison holds
query(d, f) == SelectSeq(d, LAMBDA row : compare(row[f.var], f.op, f.crit))

\* the for loop of apply_filters: acc = [df, exc, printed]; an expression that
\* query cannot parse raises out of the loop whatever the rows are
RECURSIVE filter_loop(_, _)
filter_loop(acc, fs) ==
    IF fs = <<>> THEN acc
    ELSE LET f == Head(fs)
         IN  IF ~notna(f.var) THEN filter_loop(acc, Tail(fs))
             ELSE IF f.var \notin Columns
                  THEN filter_loop([acc EXCEPT !.printed = Append(@, f.var)], Tail(fs))
             ELSE IF f.op \notin ValidOps
                  THEN [acc EXCEPT !.df = <<>>, !.exc = "QueryError"]
             ELSE filter_loop([acc EXCEPT !.df = query(@, f)], Tail(fs))

\* the same loop with break where the source has continue
RECURSIVE filter_loop_break(_, _)
filter_loop_break(acc, fs) ==
    IF fs = <<>> THEN acc
    ELSE LET f == Head(fs)
         IN  IF ~notna(f.var) THEN filter_loop_break(acc, Tail(fs))
             ELSE IF f.var \notin Columns
                  THEN [acc EXCEPT !.printed = Append(@, f.var)]
             ELSE IF f.op \notin ValidOps
                  THEN [acc EXCEPT !.df = <<>>, !.exc = "QueryError"]
             ELSE filter_loop_break([acc EXCEPT !.df = query(@, f)], Tail(fs))

apply_filters_break(d, filters) ==
    filter_loop_break([df |-> d, exc |-> "none", printed |-> <<>>], filters)

\* apply_filters(df, filters): [df |-> the rows returned, exc |-> what it
\* raised, printed |-> the filter variables it printed a diagnostic for]
apply_filters(d, filters) ==
    filter_loop([df |-> d, exc |-> "none", printed |-> <<>>], filters)

(***************************************************************************)
(* The threshold sweep                                                     *)
(***************************************************************************)
\* the values of a column without missing cells
values(d, c) == [i \in 1..Len(d) |-> d[i][c][1]]

col_min(d, c) == CHOOSE v \in {d[i][c][1] : i \in 1..Len(d)} :
                     \A i \in 1..Len(d) : v <= d[i][c][1]
col_max(d, c) == CHOOSE v \in {d[i][c][1] : i \in 1..Len(d)} :
                     \A i \in 1..Len(d) : v >= d[i][c][1]

\* np.linspace with endpoint=False: the step is (stop - start) / num
linspace_open(start, stop, num) ==
    [i \in 1..num |-> <<start * num + (i - 1) * (stop - start), num>>]

\* np.linspace(start, stop, num): start + i * step with step = (stop-start)/(num-1),
\* the last one set to stop
linspace(start, stop, num) ==
    [i \in 1..num |->
        IF i = num THEN <<stop * (num - 1), num - 1>>
        ELSE <<start * (num - 1) + (i - 1) * (stop - start), num - 1>>]

\* cell >= threshold and cell <= threshold; false for a missing cell or a NaN
\* threshold
ge(cell, t) == cell # NA /\ t[2] > 0 /\ cell[1] * t[2] >= t[1]
le(cell, t) == cell # NA /\ t[2] > 0 /\ cell[1] * t[2] <= t[1]
gt(cell, t) == cell # NA /\ t[2] > 0 /\ cell[1] * t[2] > t[1]

\* df[df[variable] > threshold]: the boundary rows left out
filtered_above_strict(d, variable, t) ==
    SelectSeq(d, LAMBDA row : gt(row[variable], t))

\* df[df[variable] >= threshold] and df[df[variable] <= threshold]
filtered_above(d, variable, t) == SelectSeq(d, LAMBDA row : ge(row[variable], t))
filtered_below(d, variable, t) == SelectSeq(d, LAMBDA row : le(row[variable], t))

stat_func(graphtype, s) == IF graphtype = "m" THEN np_median(s) ELSE np_mean(s)

\* the condition with > where the source has >=
applies_gt(sub, minn) == Len(sub) > minn

\* filtered[outcome].size >= minn
applies(sub, minn) == Len(sub) >= minn

\* stat_func(filtered[outcome]) if filtered[outcome].size >= minn else np.nan
stat_or_nan(graphtype, sub, outcome, minn) ==
    IF applies(sub, minn) THEN stat_func(graphtype, values(sub, outcome)) ELSE NaN

\* calculate_statistics (v2), the loop over the thresholds of plot_TL_graph (v1);
\* graphtype stands for stat_func.  Beside stats_above and stats_below the
\* record keeps the loop's locals filtered_above and filtered_below per
\* threshold and, in applied, the sizes of the collections stat_func was
\* applied to.
calculate_statistics(d, variable, outcome, thresholds, minn, graphtype) ==
    LET n == Len(thresholds)
        fa == [i \in 1..n |-> filtered_above(d, variable, thresholds[i])]
        fb == [i \in 1..n |-> filtered_below(d, variable, thresholds[i])]
    IN  [above |-> [i \in 1..n |-> stat_or_nan(graphtype, fa[i], outcome, minn)],
         below |-> [i \in 1..n |-> stat_or_nan(graphtype, fb[i], outcome, minn)],
         filtered_above |-> fa,
         filtered_below |-> fb,
         applied |-> {Len(sub) : sub \in {u \in {fa[i] : i \in 1..n} \cup {fb[i] : i \in 1..n} :
                                              applies(u, minn)}}]

(***************************************************************************)
(* Confidence intervals                                                    *)
(***************************************************************************)
\* numpy's global generator (a Mersenne Twister) as a 3-bit linear
\* congruential generator of full period; a draw among n values uses the
\* state's high bits
rng_next(s) == (5 * s + 3) % 8
rng_index(s, n) == ((s \div 2) % n) + 1
RngStates == 0..7

\* np.random.seed(0)
seed_state == Seed

\* the state after k draws
RECURSIVE rng_after(_, _)
rng_after(s, k) == IF k = 0 THEN s ELSE rng_after(rng_next(s), k - 1)

\* np.random.choice(data, size=(num_boots, len(data)), replace=True), data not
\* empty: row b, column j is the ((b-1)*n + j)-th draw
choice(data, s) ==
    LET n == Len(data)
    IN  [b \in 1..NumBoots |->
            [j \in 1..n |-> data[rng_index(rng_after(s, (b - 1) * n + j), n)]]]

\* np.percentile(a, q), linear interpolation, q = qn/qd percent; a is given by
\* the numerators nums over the common denominator den
percentile(nums, den, qn, qd) ==
    LET t == Sort(nums)
        D == 100 * qd
        P == (Len(nums) - 1) * qn
        k == P \div D
        r == P % D
    IN  IF r = 0 THEN <<t[k + 1] * D, den * D>>
        ELSE <<t[k + 1] * (D - r) + t[k + 2] * r, den * D>>

\* what both bootstrap functions do with an empty data: the installed numpy
\* either refuses to choose from nothing (ValueError) or, as no sample is
\* taken, returns num_boots empty rows, whose means are NaN, and so are the
\* percentiles
bootstrap_empty(s) ==
    IF lib = "raises"
    THEN [lower |-> NaN, upper |-> NaN, exc |-> "ValueError", rng |-> s]
    ELSE [lower |-> NaN, upper |-> NaN, exc |-> "none", rng |-> s]

\* bootstrap_mean_confidence_interval(data): ci = 95, so the percentiles are
\* 2.5 and 97.5
bootstrap_mean_confidence_interval(data, s) ==
    IF data = <<>> THEN bootstrap_empty(s)
    ELSE LET samples == choice(data, s)
             boot == [b \in 1..NumBoots |-> np_mean(samples[b])]
             nums == [b \in 1..NumBoots |-> boot[b][1]]
         IN  [lower |-> percentile(nums, Len(data), 25, 10),
              upper |-> percentile(nums, Len(data), 975, 10),
              exc |-> "none",
              rng |-> rng_after(s, NumBoots * Len(data))]

\* bootstrap_median_confidence_interval(data)
bootstrap_median_confidence_interval(data, s) ==
    IF data = <<>> THEN bootstrap_empty(s)
    ELSE LET samples == choice(data, s)
             boot == [b \in 1..NumBoots |-> np_median(samples[b])]
             nums == [b \in 1..NumBoots |-> boot[b][1]]
         IN  [lower |-> percentile(nums, boot[1][2], 25, 10),
              upper |-> percentile(nums, boot[1][2], 975, 10),
              exc |-> "none",
              rng |-> rng_after(s, NumBoots * Len(data))]

isqrt(k) == CHOOSE r \in 0..1000 : r * r <= k /\ (r + 1) * (r + 1) > k

\* smp.proportion_confint(cnt, nobs, alpha=0.05, method='wilson') in fixed
\* point (z*z = 3.84, the root rounded down): centre (2*cnt + z*z) / 2(nobs + z*z),
\* half width z * sqrt(cnt*(nobs-cnt)/nobs + z*z/4) / (nobs + z*z).  With nobs = 0
\* the quotient cnt/nobs is numpy's 0/0: NaN, a warning, nothing raised.
proportion_confint(cnt, nobs, s) ==
    IF nobs = 0
    THEN [lower |-> NaN, upper |-> NaN, exc |-> "none", rng |-> s]
    ELSE LET c == 200 * cnt + 384
             h == 2 * isqrt((38400 * cnt * (nobs - cnt)) \div nobs + 36864)
             den == 2 * (100 * nobs + 384)
         IN  [lower |-> <<c - h, den>>, upper |-> <<c + h, den>>,
              exc |-> "none", rng |-> s]

(***************************************************************************)
(* plot_TL_graph                                                           *)
(***************************************************************************)
NoCI == [lower |-> NaN, upper |-> NaN]
NoStats == [above |-> <<>>, below |-> <<>>, filtered_above |-> <<>>,
            filtered_below |-> <<>>, applied |-> {}]

\* what a call of plot_TL_graph comes to: exc (what it raised), printed,
\* ci_data (the values each interval estimator call was given), ci,
\* thresholds, stats, swept (the loop over the thresholds ran), saved (the
\* figure was written), rng (the generator afterwards)
plot_result(exc, printed, ci_data, ci, thresholds, stats, swept, saved, s) ==
    [exc |-> exc, printed |-> printed, ci_data |-> ci_data, ci |-> ci,
     thresholds |-> thresholds, stats |-> stats, swept |-> swept,
     saved |-> saved, rng |-> s]

\* np.linspace(df[variable].min(), df[variable].max(), 20); the minimum and
\* the maximum of an empty column are NaN, and so is every threshold then
sweep_thresholds(d, variable) ==
    IF d = <<>> THEN [i \in 1..NumThresholds |-> NaN]
    ELSE linspace(col_min(d, variable), col_max(d, variable), NumThresholds)

\* the rest of plot_TL_graph once the interval is there: thresholds, sweep, figure
sweep_and_plot(d, g, data, ci) ==
    LET thresholds == sweep_thresholds(d, g.variable)
        stats == calculate_statistics(d, g.variable, g.outcome, thresholds,
                                      g.min_n, g.graphtype)
    IN  plot_result("none", <<>>, {data}, [lower |-> ci.lower, upper |-> ci.upper],
                    thresholds, stats, TRUE, TRUE, ci.rng)

\* the interval of the graph type, from the whole filtered outcome column
ci_func(graphtype, data, s) ==
    CASE graphtype = "c" -> bootstrap_mean_confidence_interval(data, s)
      [] graphtype = "m" -> bootstrap_median_confidence_interval(data, s)
      [] graphtype = "p" -> proportion_confint(Sum(data), Len(data), s)

\* plot_TL_graph of v1: an unknown graph type prints and returns
plot_TL_graph_v1(d, g, s) ==
    IF g.graphtype \notin {"c", "m", "p"}
    THEN plot_result("none", <<"Invalid graph type">>, {}, NoCI, <<>>, NoStats,
                     FALSE, FALSE, s)
    ELSE LET data == values(d, g.outcome)
             ci == ci_func(g.graphtype, data, s)
         IN  IF ci.exc # "none"
             THEN plot_result(ci.exc, <<>>, {data}, NoCI, <<>>, NoStats,
                              FALSE, FALSE, ci.rng)
             ELSE sweep_and_plot(d, g, data, ci)

\* plot_TL_graph of v2: get_statistic_functions raises on an unknown graph type
plot_TL_graph_v2(d, g, s) ==
    IF g.graphtype \notin {"c", "m", "p"}
    THEN plot_result("ValueError", <<>>, {}, NoCI, <<>>, NoStats, FALSE, FALSE, s)
    ELSE LET data == values(d, g.outcome)
             ci == ci_func(g.graphtype, data, s)
         IN  IF ci.exc # "none"
             THEN plot_result(ci.exc, <<>>, {data}, NoCI, <<>>, NoStats,
                              FALSE, FALSE, ci.rng)
             ELSE sweep_and_plot(d, g, data, ci)

(***************************************************************************)
(* Inputs                                                                  *)
(***************************************************************************)
Row(x, y, g) == [x |-> x, y |-> y, g |-> g]
Filter(var, op, crit) == [var |-> var, op |-> op, crit |-> crit]
NoFilter == Filter("nan", "nan", 0)

GraphSpec(file, outcome, variable, f, minn, graphtype) ==
    [excel_file |-> file, outcome |-> outcome, variable |-> variable,
     filters |-> <<NoFilter, f, NoFilter, NoFilter>>, min_n |-> minn,
     graphtype |-> graphtype]

\* the data workbooks of the batch runs: three clean rows; rows that all miss
\* the outcome or the predictor; an empty sheet
BatchData ==
    { <<Row(<<0>>, <<0>>, <<0>>), Row(<<19>>, <<1>>, <<1>>), Row(<<7>>, <<1>>, <<0>>)>>,
      <<Row(<<0>>, NA, <<1>>), Row(NA, <<1>>, <<1>>)>>,
      <<>> }

\* the GraphSpecs of the batch runs: each graph type, an unknown graph type, a
\* missing workbook, unknown outcome and predictor columns, and filters that
\* keep rows, keep none, name an unknown column, or cannot be evaluated
BatchSpecs ==
    { GraphSpec("data", "y", "x", NoFilter, 1, t) : t \in {"c", "m", "p", "z"} }
    \cup { GraphSpec("nofile", "y", "x", NoFilter, 1, "c"),
           GraphSpec("data", "zz", "x", NoFilter, 1, "c"),
           GraphSpec("data", "y", "zz", NoFilter, 1, "m") }
    \cup { GraphSpec("data", "y", "x", f, 0, "c") :
             f \in { Filter("g", "==", 0), Filter("g", "==", 5),
                     Filter("zz", "==", 1), Filter("g", "=>", 1) } }

Batches == UNION { [1..n -> BatchSpecs] : n \in 1..MaxGraphs }

\* os.path.exists(excel_file)
exists(file) == file = "data"

\* df.dropna(subset=cols), cols known columns
dropna(d, cols) == SelectSeq(d, LAMBDA row : \A c \in cols : row[c] # NA)

\* the test of df.empty left out
df_empty_never(d) == FALSE

\* df.empty
df_empty(d) == Len(d) = 0

(***************************************************************************)
(* The batch: main() of v1, generate_graphs() of v2                        *)
(***************************************************************************)
Graph == params[idx]

\* the loop goes on to the next row of params_df, or ends
NextRow(st) ==
    /\ status' = [status EXCEPT ![idx] = st]
    /\ idx' = idx + 1
    /\ pc' = IF idx = Len(params) THEN "done" ELSE "row"
    /\ df' = <<>>

Fixed == UNCHANGED <<variant, lib, params, datafile, run, args, ret>>

BatchInit ==
    /\ variant \in {"v1", "v2"}
    /\ lib \in {"raises", "nan"}
    /\ params \in Batches
    /\ datafile \in BatchData
    /\ run = 1
    /\ idx = 1
    /\ pc = "row"
    /\ df = <<>>
    /\ rng \in IF variant = "v1" THEN {seed_state} ELSE RngStates
    /\ status = [i \in 1..Len(params) |-> "pending"]
    /\ ciLog = {}
    /\ sweepLog = {}
    /\ args = <<>>
    /\ ret = <<>>

\* v1, main: the workbook must exist and hold the outcome and the predictor
\* column, else print and continue
V1LoadData ==
    /\ variant = "v1" /\ pc = "row"
    /\ IF ~exists(Graph.excel_file)
           \/ Graph.outcome \notin Columns \/ Graph.variable \notin Columns
       THEN NextRow("skipped")
       ELSE /\ df' = datafile
            /\ pc' = "loaded"
            /\ UNCHANGED <<status, idx>>
    /\ UNCHANGED <<rng, ciLog, sweepLog>> /\ Fixed

\* v1, main: apply_filters is called bare; what it raises ends the program
V1ApplyFilters ==
    /\ variant = "v1" /\ pc = "loaded"
    /\ LET r == apply_filters(df, Graph.filters)
       IN  IF r.exc # "none"
           THEN pc' = "crashed" /\ UNCHANGED <<df, status, idx>>
           ELSE df' = r.df /\ pc' = "filtered" /\ UNCHANGED <<status, idx>>
    /\ UNCHANGED <<rng, ciLog, sweepLog>> /\ Fixed

\* v1, main: dropna, then an empty df prints and continues
V1Dropna ==
    /\ variant = "v1" /\ pc = "filtered"
    /\ LET d == dropna(df, {Graph.variable, Graph.outcome})
       IN  IF df_empty(d)
           THEN NextRow("skipped")
           ELSE df' = d /\ pc' = "plot" /\ UNCHANGED <<status, idx>>
    /\ UNCHANGED <<rng, ciLog, sweepLog>> /\ Fixed

\* the history of a call of plot_TL_graph
Logged(r) ==
    /\ ciLog' = ciLog \cup
         { [run |-> run, idx |-> idx, kind |-> Graph.graphtype, data |-> v,
            exc |-> r.exc, lower |-> r.ci.lower, upper |-> r.ci.upper] : v \in r.ci_data }
    /\ sweepLog' = IF r.swept
                   THEN sweepLog \cup { [run |-> run, idx |-> idx, rows |-> Len(df),
                                         applied |-> r.stats.applied] }
                   ELSE sweepLog
    /\ rng' = r.rng

\* v1, main: plot_TL_graph is called bare
V1Plot ==
    /\ variant = "v1" /\ pc = "plot"
    /\ LET r == plot_TL_graph_v1(df, Graph, rng)
       IN  /\ Logged(r)
           /\ IF r.exc # "none"
              THEN pc' = "crashed" /\ UNCHANGED <<df, status, idx>>
              ELSE NextRow(IF r.saved THEN "success" ELSE "skipped")
    /\ Fixed

\* v2, generate_graphs: load_data raises on a missing workbook; the except
\* clause of the loop body prints and the loop goes on
V2LoadData ==
    /\ variant = "v2" /\ pc = "row"
    /\ IF ~exists(Graph.excel_file)
       THEN NextRow("failed")
       ELSE df' = datafile /\ pc' = "loaded" /\ UNCHANGED <<status, idx>>
    /\ UNCHANGED <<rng, ciLog, sweepLog>> /\ Fixed

V2ApplyFilters ==
    /\ variant = "v2" /\ pc = "loaded"
    /\ LET r == apply_filters(df, Graph.filters)
       IN  IF r.exc # "none"
           THEN NextRow("failed")
           ELSE df' = r.df /\ pc' = "filtered" /\ UNCHANGED <<status, idx>>
    /\ UNCHANGED <<rng, ciLog, sweepLog>> /\ Fixed

\* v2: dropna raises KeyError on a column the workbook does not hold
V2Dropna ==
    /\ variant = "v2" /\ pc = "filtered"
    /\ IF Graph.variable \notin Columns \/ Graph.outcome \notin Columns
       THEN NextRow("failed")
       ELSE LET d == dropna(df, {Graph.variable, Graph.outcome})
            IN  IF df_empty(d)
                THEN NextRow("skipped")
                ELSE df' = d /\ pc' = "plot" /\ UNCHANGED <<status, idx>>
    /\ UNCHANGED <<rng, ciLog, sweepLog>> /\ Fixed

V2Plot ==
    /\ variant = "v2" /\ pc = "plot"
    /\ LET r == plot_TL_graph_v2(df, Graph, rng)
       IN  /\ Logged(r)
           /\ NextRow(IF r.exc # "none" THEN "failed" ELSE "success")
    /\ Fixed

\* the program is run again on the same inputs: v1 seeds the generator as the
\* module is loaded, v2 never seeds it and starts from the system's entropy
StartRun ==
    /\ pc \in {"done", "crashed"} /\ run < MaxRuns
    /\ run' = run + 1
    /\ idx' = 1
    /\ pc' = "row"
    /\ df' = <<>>
    /\ rng' \in IF variant = "v1" THEN {seed_state} ELSE RngStates
    /\ status' = [i \in 1..Len(params) |-> "pending"]
    /\ UNCHANGED <<variant, lib, params, datafile, ciLog, sweepLog, args, ret>>

Next ==
    \/ V1LoadData \/ V1ApplyFilters \/ V1Dropna \/ V1Plot
    \/ V2LoadData \/ V2ApplyFilters \/ V2Dropna \/ V2Plot

Spec == BatchInit /\ [][Next]_vars

NextRuns == Next \/ StartRun

SpecRuns == BatchInit /\ [][NextRuns]_vars

(***************************************************************************)
(* Claims about the batch                                                  *)
(***************************************************************************)
Settled == {"success", "skipped", "failed"}

\* C3: no exception raised while one GraphSpec is processed escapes into the
\* batch loop: the program never ends on an exception, and when the loop is
\* over every GraphSpec of the parameter list has been attempted and has ended
\* in success, skipped or failed.
C3_NoExceptionEscapes ==
    /\ pc # "crashed"
    /\ pc = "done" => \A i \in 1..Len(params) : status[i] \in Settled

\* the workbook of GraphSpec g is read, filtered and cleaned without an
\* error, and no row is left
EmptyAfterFiltering(g) ==
    /\ exists(g.excel_file)
    /\ g.outcome \in Columns /\ g.variable \in Columns
    /\ apply_filters(datafile, g.filters).exc = "none"
    /\ dropna(apply_filters(datafile, g.filters).df, {g.variable, g.outcome}) = <<>>

\* C4: a GraphSpec whose dataset is empty after the filters and the removal
\* of rows with a missing outcome or predictor is skipped: no interval
\* estimator call, no sweep and no figure for it, no exception, and the batch
\* goes on.  So every estimator call and every sweep gets at least one row.
C4_EmptyDatasetSkipped ==
    /\ \A e \in ciLog : e.data # <<>>
    /\ \A e \in sweepLog : e.rows > 0
    /\ \A i \in 1..Len(params) :
          EmptyAfterFiltering(params[i]) =>
             /\ status[i] \in {"pending", "skipped"}
             /\ i < idx => status[i] = "skipped"
             /\ ~ \E e \in ciLog \cup sweepLog : e.idx = i
             /\ ~ (pc = "crashed" /\ idx = i)

C4_Witness ==
    \E i, j \in 1..Len(params) :
        /\ i < j
        /\ EmptyAfterFiltering(params[i])
        /\ status[i] = "skipped"
        /\ status[j] = "success"
        /\ \E e \in ciLog : e.idx = j

\* C5: two calls of a bootstrap estimator (mean or median) on the same
\* outcome values return the same bounds, in the same batch or in two runs
\* of the program.
C5_BootstrapDeterministic ==
    \A a, b \in ciLog :
        (a.kind \in {"c", "m"} /\ a.kind = b.kind /\ a.data = b.data)
            => (a.lower = b.lower /\ a.upper = b.upper)

(***************************************************************************)
(* apply_filters called on its own                                         *)
(***************************************************************************)
\* the rows of the data frames handed to apply_filters
FilterRows == { Row(<<0>>, <<1>>, g) : g \in {<<0>>, <<1>>, NA} }

FilterData == UNION { [1..n -> FilterRows] : n \in 0..MaxRows }

\* the filters: unset, on an unknown column, every operator on g, one that
\* query cannot evaluate
FilterSpecs ==
    { NoFilter, Filter("zz", "==", 1), Filter("g", "=>", 1) }
    \cup { Filter("g", op, 1) : op \in ValidOps }

\* main() and generate_graphs() build the list of filter1..filter4
NumFilters == 4

UnitIdle ==
    /\ params = <<>> /\ datafile = <<>> /\ run = 1 /\ idx = 1 /\ df = <<>>
    /\ status = <<>> /\ ciLog = {} /\ sweepLog = {} /\ ret = <<>>

FiltersInit ==
    /\ variant = "v1"
    /\ lib = "nan"
    /\ rng = seed_state
    /\ pc = "call"
    /\ args \in [df : FilterData, filters : [1..NumFilters -> FilterSpecs]]
    /\ UnitIdle

\* apply_filters(df, filters); the function is the same text in v1 and v2
CallApplyFilters ==
    /\ pc = "call"
    /\ ret' = apply_filters(args.df, args.filters)
    /\ pc' = "returned"
    /\ UNCHANGED <<variant, lib, params, datafile, run, idx, df, rng, status,
                   ciLog, sweepLog, args>>

SpecFilters == FiltersInit /\ [][CallApplyFilters]_vars

Perms(n) == { p \in [1..n -> 1..n] : \A i, j \in 1..n : p[i] = p[j] => i = j }

\* C6: filter commutativity: apply_filters returns the same rows for every
\* permutation of the list of filters, unset filters and filters on an
\* unknown column included.
C6_FilterCommutativity ==
    pc = "returned" =>
        \A p \in Perms(NumFilters) :
            LET r == apply_filters(args.df, [i \in 1..NumFilters |-> args.filters[p[i]]])
            IN  r.df = ret.df /\ r.exc = ret.exc

\* the filters that take part: the variable is set and is a column
Active(fs) == { i \in 1..Len(fs) : fs[i].var # "nan" /\ fs[i].var \in Columns }
Unknown(fs) == { i \in 1..Len(fs) : fs[i].var # "nan" /\ fs[i].var \notin Columns }

C6_Witness ==
    /\ pc = "returned" /\ ret.exc = "none"
    /\ Unknown(args.filters) # {}
    /\ \E i \in 1..NumFilters : args.filters[i].var = "nan"
    /\ \E i, j \in Active(args.filters) : args.filters[i] # args.filters[j]
    /\ Len(ret.df) > 0 /\ Len(ret.df) < Len(args.df)

\* row[variable] operator criterion, by the usual comparison of numbers; a
\* missing value equals nothing
Holds(cell, op, crit) ==
    \/ op = "==" /\ cell # NA /\ cell[1] = crit
    \/ op = "!=" /\ (cell = NA \/ cell[1] # crit)
    \/ op = ">"  /\ cell # NA /\ cell[1] > crit
    \/ op = ">=" /\ cell # NA /\ ~(cell[1] < crit)
    \/ op = "<"  /\ cell # NA /\ cell[1] < crit
    \/ op = "<=" /\ cell # NA /\ ~(cell[1] > crit)

\* C7: apply_filters returns exactly the rows that satisfy every active
\* filter; an unset filter does nothing; a filter on an unknown column is
\* skipped with one diagnostic, raises nothing and stops no later filter.
C7_FilterConjunction ==
    (pc = "returned"
        /\ \A i \in Active(args.filters) : args.filters[i].op \in ValidOps)
    => /\ ret.exc = "none"
       /\ ret.df = SelectSeq(args.df, LAMBDA row :
             \A i \in Active(args.filters) :
                Holds(row[args.filters[i].var], args.filters[i].op, args.filters[i].crit))
       /\ Len(ret.printed) = Cardinality(Unknown(args.filters))
       /\ \A k \in 1..Len(ret.printed) : ret.printed[k] \notin Columns

C7_Witness ==
    /\ pc = "returned" /\ ret.exc = "none"
    /\ args.filters[1].var = "zz" /\ args.filters[2].var = "nan"
    /\ args.filters[3] = Filter("g", ">=", 1) /\ args.filters[4] = Filter("g", "<=", 1)
    /\ Len(args.df) = MaxRows /\ Len(ret.df) = 1
    /\ ret.printed = <<"zz">>

(***************************************************************************)
(* The sweep called on its own: plot_TL_graph on a cleaned, non-empty df   *)
(* (what the batch hands it), calculate_statistics on any df and any       *)
(* thresholds                                                              *)
(***************************************************************************)
SweepRows == { Row(<<x>>, <<y>>, <<0>>) : x \in {0, 7, 19}, y \in {0, 1} }
SweepData == UNION { [1..n -> SweepRows] : n \in 1..MaxSweepRows }

\* thresholds handed to calculate_statistics: below, inside and above the
\* predictor's values
ThresholdLists ==
    { <<t>> : t \in {<<0 - 1, 1>>, <<7, 1>>, <<20, 1>>} }
    \cup { <<<<0 - 1, 1>>, <<7, 1>>>>, <<<<7, 1>>, <<20, 1>>>>, <<<<0 - 1, 1>>, <<20, 1>>>> }

SweepInit ==
    /\ variant \in {"v1", "v2"}
    /\ lib = "nan"
    /\ rng = seed_state
    /\ pc = "call"
    /\ \/ args \in [fn : {"plot_TL_graph"}, df : SweepData, thresholds : {<<>>},
                    g : { GraphSpec("data", "y", "x", NoFilter, m, t) :
                            m \in 0..MaxMinN, t \in {"c", "m", "p"} }]
       \/ /\ variant = "v2"
          /\ args \in [fn : {"calculate_statistics"}, df : SweepData \cup {<<>>},
                       thresholds : ThresholdLists,
                       g : { GraphSpec("data", "y", "x", NoFilter, m, t) :
                               m \in 0..MaxMinN, t \in {"c", "m"} }]
    /\ UnitIdle

CallPlotTLGraph ==
    /\ pc = "call" /\ args.fn = "plot_TL_graph"
    /\ ret' = IF variant = "v1" THEN plot_TL_graph_v1(args.df, args.g, rng)
                                ELSE plot_TL_graph_v2(args.df, args.g, rng)
    /\ rng' = ret'.rng
    /\ pc' = "returned"
    /\ UNCHANGED <<variant, lib, params, datafile, run, idx, df, status,
                   ciLog, sweepLog, args>>

\* TLGraphGenerator.calculate_statistics, a static method, called directly
CallCalculateStatistics ==
    /\ pc = "call" /\ args.fn = "calculate_statistics"
    /\ ret' = plot_result("none", <<>>, {}, NoCI, args.thresholds,
                          calculate_statistics(args.df, args.g.variable, args.g.outcome,
                                               args.thresholds, args.g.min_n,
                                               args.g.graphtype),
                          TRUE, FALSE, rng)
    /\ pc' = "returned"
    /\ UNCHANGED <<variant, lib, params, datafile, run, idx, df, rng, status,
                   ciLog, sweepLog, args>>

NextSweep == CallPlotTLGraph \/ CallCalculateStatistics

SpecSweep == SweepInit /\ [][NextSweep]_vars

Swept == pc = "returned" /\ ret.exc = "none" /\ ret.swept

\* the rows at or above / at or below threshold t, by exact comparison
RowsAbove(d, t) == SelectSeq(d, LAMBDA row : row.x[1] * t[2] >= t[1])
RowsBelow(d, t) == SelectSeq(d, LAMBDA row : row.x[1] * t[2] <= t[1])

\* statisticFn: the mean for mean and proportion, the median for median
StatisticFn(kind, sub) ==
    IF kind = "m" THEN np_median([i \in 1..Len(sub) |-> sub[i].y[1]])
                  ELSE np_mean([i \in 1..Len(sub) |-> sub[i].y[1]])

\* C1: at every threshold and on each side the recorded statistic is NaN when
\* the subset has fewer than minN rows and statisticFn of the subset's
\* outcomes otherwise, for minN = 0, 1, ...; with minN above the size of the
\* dataset every statistic on both sides is NaN.
C1_MinNFloor ==
    Swept =>
        LET d == args.df
            n == args.g.min_n
            k == args.g.graphtype
        IN  /\ \A i \in 1..Len(ret.thresholds) :
                  LET a == RowsAbove(d, ret.thresholds[i])
                      b == RowsBelow(d, ret.thresholds[i])
                  IN  /\ ret.stats.above[i] = IF Len(a) < n THEN NaN ELSE StatisticFn(k, a)
                      /\ ret.stats.below[i] = IF Len(b) < n THEN NaN ELSE StatisticFn(k, b)
            /\ n > Len(d) =>
                  \A i \in 1..Len(ret.thresholds) :
                      ret.stats.above[i] = NaN /\ ret.stats.below[i] = NaN

C1_Witness ==
    /\ Swept /\ args.fn = "plot_TL_graph"
    /\ args.g.min_n = 2 /\ Len(args.df) = 3
    /\ \E i, j \in 1..NumThresholds :
          /\ ret.stats.above[i] = NaN /\ ret.stats.above[j] # NaN
          /\ ret.stats.below[j] = NaN /\ ret.stats.below[i] # NaN

RatEq(a, b) == a[1] * b[2] = b[1] * a[2]
RatLe(a, b) == a[1] * b[2] <= b[1] * a[2]
RatSub(a, b) == <<a[1] * b[2] - b[1] * a[2], a[2] * b[2]>>

IsMin(d, v) == (\E i \in 1..Len(d) : d[i].x[1] = v) /\ (\A i \in 1..Len(d) : v <= d[i].x[1])
IsMax(d, v) == (\E i \in 1..Len(d) : d[i].x[1] = v) /\ (\A i \in 1..Len(d) : v >= d[i].x[1])

\* C2: on a non-empty dataset the sweep has exactly 20 thresholds, evenly
\* spaced and non-decreasing, the first the minimum of the predictor and the
\* last its maximum; when minimum and maximum are equal all 20 are that
\* value and the sweep completes.
C2_TwentyThresholds ==
    (pc = "returned" /\ args.fn = "plot_TL_graph") =>
        LET t == ret.thresholds
        IN  /\ ret.exc = "none" /\ ret.swept /\ ret.saved
            /\ Len(t) = 20
            /\ \A i \in 1..Len(t) : t[i][2] > 0
            /\ \A v \in 0..19 : IsMin(args.df, v) => RatEq(t[1], <<v, 1>>)
            /\ \A v \in 0..19 : IsMax(args.df, v) => RatEq(t[Len(t)], <<v, 1>>)
            /\ \A i \in 1..(Len(t) - 1) : RatLe(t[i], t[i + 1])
            /\ \A i \in 1..(Len(t) - 2) :
                  RatEq(RatSub(t[i + 1], t[i]), RatSub(t[i + 2], t[i + 1]))
            /\ \A v \in 0..19 : (IsMin(args.df, v) /\ IsMax(args.df, v)) =>
                  \A i \in 1..Len(t) : RatEq(t[i], <<v, 1>>)

C2_Witness ==
    /\ pc = "returned" /\ args.fn = "plot_TL_graph" /\ ret.saved
    /\ IsMin(args.df, 0) /\ IsMax(args.df, 19)
    /\ Len(ret.thresholds) = 20
    /\ RatEq(ret.thresholds[8], <<7, 1>>)

\* C8: at every threshold a row whose predictor equals the threshold is in
\* the above subset and in the below subset; with a constant predictor both
\* subsets are the whole dataset at each of the 20 thresholds.
C8_ThresholdInclusive ==
    Swept =>
        /\ \A i \in 1..Len(ret.thresholds) : \A k \in 1..Len(args.df) :
              RatEq(<<args.df[k].x[1], 1>>, ret.thresholds[i]) =>
                 /\ \E m \in 1..Len(ret.stats.filtered_above[i]) :
                        ret.stats.filtered_above[i][m] = args.df[k]
                 /\ \E m \in 1..Len(ret.stats.filtered_below[i]) :
                        ret.stats.filtered_below[i][m] = args.df[k]
        /\ (args.fn = "plot_TL_graph"
               /\ \A j, k \in 1..Len(args.df) : args.df[j].x = args.df[k].x) =>
              /\ Len(ret.thresholds) = 20
              /\ \A i \in 1..Len(ret.thresholds) :
                    /\ ret.stats.filtered_above[i] = args.df
                    /\ ret.stats.filtered_below[i] = args.df

C8_Witness ==
    /\ Swept /\ args.fn = "plot_TL_graph"
    /\ \E i \in 2..(NumThresholds - 1) : \E k \in 1..Len(args.df) :
          /\ RatEq(<<args.df[k].x[1], 1>>, ret.thresholds[i])
          /\ Len(ret.stats.filtered_above[i]) < Len(args.df)
          /\ Len(ret.stats.filtered_below[i]) < Len(args.df)

\* C10: in the statistic computation a side whose subset has no rows gets
\* NaN for every minN, minN = 0 included, and the statistic function is
\* never applied to an empty collection.
C10_EmptySubsetGuarded ==
    Swept =>
        /\ 0 \notin ret.stats.applied
        /\ \A i \in 1..Len(ret.thresholds) :
              /\ Len(ret.stats.filtered_above[i]) = 0 => ret.stats.above[i] = NaN
              /\ Len(ret.stats.filtered_below[i]) = 0 => ret.stats.below[i] = NaN

(***************************************************************************)
(* The interval estimators called on their own                             *)
(***************************************************************************)
EstimatorData == UNION { [1..n -> {0, 1}] : n \in 0..MaxValues }

EstimatorInit ==
    /\ variant \in {"v1", "v2"}
    /\ lib \in {"raises", "nan"}
    /\ rng \in RngStates
    /\ pc = "call"
    /\ args \in [kind : {"c", "m", "p"}, data : EstimatorData]
    /\ UnitIdle

\* ci_func(df[outcome].values)
CallCiFunc ==
    /\ pc = "call"
    /\ ret' = ci_func(args.kind, args.data, rng)
    /\ rng' = ret'.rng
    /\ pc' = "returned"
    /\ UNCHANGED <<variant, lib, params, datafile, run, idx, df, status,
                   ciLog, sweepLog, args>>

SpecCI == EstimatorInit /\ [][CallCiFunc]_vars

\* C9: an interval estimator called with no outcome values, whatever the
\* statistic kind, fails with InsufficientData and never returns NaN bounds.
C9_EmptySampleFails ==
    (pc = "returned" /\ args.data = <<>>) =>
        /\ ret.exc = "InsufficientData"
        /\ ret.lower # NaN /\ ret.upper # NaN

====
